---- MODULE Spec2Model ----
(***************************************************************************)
(* The SaaS starter backend (src/main.py, src/schemas.py): five HTTP       *)
(* handlers over a document store.  A request is received, validated by    *)
(* the framework against its payload model, and then runs its handler.     *)
(* Each database round trip of a handler is one step, so that requests     *)
(* served concurrently interleave between round trips, as they do in the   *)
(* hosting framework's thread pool.                                        *)
(***************************************************************************)
EXTENDS Integers, Sequences, FiniteSets, TLC

\* Number of requests of a run.
MaxReq == 3
\* Largest number of collections, besides the three of this program, that
\* the database may hold when the diagnostics endpoint lists them.
MaxExtra == 11
\* main.py:125, collections[:10]
CollectionLimit == 10

Req == 1..MaxReq

\* ------------------------------------------------------------------ inputs

ValidEmails == {"a@example.com", "b@example.com"}

EmailInputs == ValidEmails \cup {"not-an-email"}

\* pydantic's EmailStr: accepts the well-formed addresses, rejects the rest.
EmailStr(e) == e \in ValidEmails

EnvNames == {"DATABASE_URL", "DATABASE_NAME"}

SignupPayload(email) == [name |-> "Ada", email |-> email, password |-> "pw"]

ContactPayload(email) ==
    [name |-> "A", email |-> email, subject |-> "Hi", message |-> "Test"]

NoPayload == [empty |-> TRUE]

\* The framework accepts a body that fits the handler's payload model.
SignupPayloadValid(p) == EmailStr(p.email)

\* Variant: ContactPayload.email declared as a plain str.
ContactPayloadValid_Untyped(p) == TRUE

ContactPayloadValid(p) == EmailStr(p.email)

\* ----------------------------------------------------------------- schemas

User(name, email, password_hash) ==
    [name |-> name, email |-> email, password_hash |-> password_hash,
     avatar_url |-> "None", is_active |-> TRUE]

ContactMessage(p) ==
    [name |-> p.name, email |-> p.email, subject |-> p.subject,
     message |-> p.message]

\* The two hard-coded posts of list_blog.
seed ==
    << [title |-> "Launching our pastel fintech SaaS",
        slug |-> "launching-pastel-fintech-saas",
        excerpt |-> "A clean, minimalist platform for modern teams.",
        content |-> "Welcome to our new SaaS built with a pastel vibe.",
        tags |-> <<"launch", "product">>,
        author |-> "Team",
        created_at |-> "utcnow",
        updated_at |-> "utcnow"],
       [title |-> "Designing with softness and clarity",
        slug |-> "designing-with-softness",
        excerpt |-> "Why soft pastels improve readability and focus.",
        content |-> "Soft palettes can reduce cognitive load for users.",
        tags |-> <<"design", "ui">>,
        author |-> "Design",
        created_at |-> "utcnow",
        updated_at |-> "utcnow"] >>

\* ------------------------------------------------------------------- state

VARIABLES
    env,             \* the environment variables that are set
    db,              \* TRUE: the database handle is present; FALSE: it is None
    workers,         \* how many requests the host serves at the same time
    user,            \* the collections, in insertion order
    blogpost,
    contactmessage,
    nextId,          \* the next storage-assigned identifier
    pc,              \* each request's position
    kind,            \* each request's endpoint
    payload,         \* each request's body
    existing,        \* signup's local: the result of the existence query
    posts,           \* list_blog's local
    status,          \* the response's HTTP status (0: none yet)
    body,            \* the response's body
    dbops,           \* the database operations each request has performed
    empty_at_call    \* list_blog: the blogpost collection was empty when called

vars == <<env, db, workers, user, blogpost, contactmessage, nextId, pc, kind,
          payload, existing, posts, status, body, dbops, empty_at_call>>

store == <<user, blogpost, contactmessage, nextId>>

\* ----------------------------------------------------------------- helpers

\* str(ObjectId)
IdStr(id) == <<"ObjectId", id>>

\* dict.pop(key)
Pop(p, k) == [f \in DOMAIN p \ {k} |-> p[f]]

\* The store's insert: the document with its storage-assigned _id.
Stored(doc, id) == doc @@ [_id |-> id]

\* database.create_document with the handle present: insert one, return str(id)
create_document(coll, doc) == Append(coll, Stored(doc, nextId))

\* database.get_documents: every document of the collection
get_documents(coll) == coll

\* Variant: the seed documents replace the collection's content.
insert_many_Replace(coll, docs) ==
    [i \in 1..Len(docs) |-> Stored(docs[i], nextId + i - 1)]

\* db[coll].insert_many(docs)
insert_many(coll, docs) ==
    coll \o [i \in 1..Len(docs) |-> Stored(docs[i], nextId + i - 1)]

\* Variant: signup without its existence query.
FindByEmail_Skipped(coll, email) == <<>>

\* db["user"].find({"email": email}).limit(1)
FindByEmail(coll, email) ==
    LET hits == SelectSeq(coll, LAMBDA d : d.email = email)
    IN  IF hits = <<>> THEN <<>> ELSE <<Head(hits)>>

\* Variant: the records are returned as stored.
Normalize_KeepId(ps) == ps

\* main.py:84-86: replace _id by id = str(_id)
Normalize(ps) ==
    [i \in 1..Len(ps) |->
        IF "_id" \in DOMAIN ps[i]
        THEN Pop(ps[i], "_id") @@ [id |-> IdStr(ps[i]._id)]
        ELSE ps[i]]

\* Variant: without main.py:46-47 the outer except clause catches the
\* HTTPException and answers 500.
HandlerError_Caught(st) == 500

\* main.py:46-47: an HTTPException raised in the handler is raised again as
\* it is, with its own status.
HandlerError(st) == st

InFlight == {r \in Req : pc[r] \notin {"idle", "done"}}

\* A request is taken up when a worker is free; requests are numbered in the
\* order in which they are taken up.
Accept(r) ==
    /\ pc[r] = "idle"
    /\ \A q \in Req : q < r => pc[q] # "idle"
    /\ Cardinality(InFlight) < workers

Respond(r, st, b) ==
    /\ pc' = [pc EXCEPT ![r] = "done"]
    /\ status' = [status EXCEPT ![r] = st]
    /\ body' = [body EXCEPT ![r] = b]

Did(r, op) == dbops' = [dbops EXCEPT ![r] = Append(@, op)]

\* -------------------------------------------------------------------- Init

Init ==
    /\ env \in SUBSET EnvNames
    /\ db = (env = EnvNames)
    /\ workers \in {1, MaxReq}
    /\ user = <<>>
    /\ blogpost = <<>>
    /\ contactmessage = <<>>
    /\ nextId = 1
    /\ pc = [r \in Req |-> "idle"]
    /\ kind = [r \in Req |-> "none"]
    /\ payload = [r \in Req |-> NoPayload]
    /\ existing = [r \in Req |-> <<>>]
    /\ posts = [r \in Req |-> <<>>]
    /\ status = [r \in Req |-> 0]
    /\ body = [r \in Req |-> <<>>]
    /\ dbops = [r \in Req |-> <<>>]
    /\ empty_at_call = [r \in Req |-> FALSE]

\* ---------------------------------------------------------------- handlers

\* GET /
read_root(r) ==
    /\ Accept(r)
    /\ kind' = [kind EXCEPT ![r] = "root"]
    /\ Respond(r, 200, [message |-> "SaaS Starter Backend running"])
    /\ UNCHANGED <<env, db, workers, store, payload, existing, posts, dbops,
                   empty_at_call>>

\* POST /api/auth/signup: the framework validates the body as a SignupPayload
\* before the handler runs.
signup_request(r) ==
    /\ Accept(r)
    /\ \E email \in EmailInputs :
         /\ kind' = [kind EXCEPT ![r] = "signup"]
         /\ payload' = [payload EXCEPT ![r] = SignupPayload(email)]
         /\ IF SignupPayloadValid(SignupPayload(email))
            THEN /\ pc' = [pc EXCEPT ![r] = "signup_find"]
                 /\ UNCHANGED <<status, body>>
            ELSE Respond(r, 422, [detail |-> "value is not a valid email address"])
    /\ UNCHANGED <<env, db, workers, store, existing, posts, dbops,
                   empty_at_call>>

\* main.py:36-38
signup_find(r) ==
    /\ pc[r] = "signup_find"
    /\ LET found == IF db THEN FindByEmail(user, payload[r].email) ELSE <<>>
       IN  /\ existing' = [existing EXCEPT ![r] = found]
           /\ IF db THEN Did(r, "find") ELSE UNCHANGED dbops
           /\ IF found # <<>>
              THEN Respond(r, HandlerError(409), [detail |-> "User already exists"])
              ELSE /\ pc' = [pc EXCEPT ![r] = "signup_create"]
                   /\ UNCHANGED <<status, body>>
    /\ UNCHANGED <<env, db, workers, store, kind, payload, posts, empty_at_call>>

\* Variant: signup answers ok without persisting the user.
signup_create_NoInsert(r) ==
    /\ pc[r] = "signup_create"
    /\ LET p == payload[r]
           doc == User(p.name, p.email, <<"hashed::", p.password>>)
       IN  IF db
           THEN /\ user' = user
                /\ nextId' = nextId
                /\ Did(r, "insert_one")
                /\ Respond(r, 200, [ok |-> TRUE, user_id |-> IdStr(nextId)])
           ELSE /\ Respond(r, 500, [detail |-> "Database not available"])
                /\ UNCHANGED <<user, nextId, dbops>>
    /\ UNCHANGED <<env, db, workers, blogpost, contactmessage, kind, payload,
                   existing, posts, empty_at_call>>

\* main.py:42-45, and 48-49 when create_document raises
signup_create(r) ==
    /\ pc[r] = "signup_create"
    /\ LET p == payload[r]
           doc == User(p.name, p.email, <<"hashed::", p.password>>)
       IN  IF db
           THEN /\ user' = create_document(user, doc)
                /\ nextId' = nextId + 1
                /\ Did(r, "insert_one")
                /\ Respond(r, 200, [ok |-> TRUE, user_id |-> IdStr(nextId)])
           ELSE /\ Respond(r, 500, [detail |-> "Database not available"])
                /\ UNCHANGED <<user, nextId, dbops>>
    /\ UNCHANGED <<env, db, workers, blogpost, contactmessage, kind, payload,
                   existing, posts, empty_at_call>>

\* Variant: list_blog seeds on every call.
NeedsSeed_Always(ps) == TRUE

\* main.py:56, "if not posts"
NeedsSeed(ps) == ps = <<>>

\* Variant: without a handle the seed posts are served statically.
ReadPosts_Static == IF db THEN get_documents(blogpost) ELSE seed

\* main.py:55
ReadPosts == IF db THEN get_documents(blogpost) ELSE <<>>

\* GET /api/blog, main.py:55-56; with nothing to seed or no handle, 84-87 too
list_blog_read(r) ==
    /\ Accept(r)
    /\ kind' = [kind EXCEPT ![r] = "blog"]
    /\ LET got == ReadPosts
       IN  /\ posts' = [posts EXCEPT ![r] = got]
           /\ IF db THEN Did(r, "find") ELSE UNCHANGED dbops
           /\ IF NeedsSeed(got) /\ db
              THEN /\ pc' = [pc EXCEPT ![r] = "list_blog_seed"]
                   /\ UNCHANGED <<status, body>>
              ELSE Respond(r, 200, Normalize(got))
    /\ empty_at_call' = [empty_at_call EXCEPT ![r] = (blogpost = <<>>)]
    /\ UNCHANGED <<env, db, workers, store, payload, existing>>

\* Variant: the insert is skipped when the collection is no longer empty.
list_blog_seed_IfStillEmpty(r) ==
    /\ pc[r] = "list_blog_seed"
    /\ IF blogpost = <<>>
       THEN /\ blogpost' = insert_many(blogpost, seed)
            /\ nextId' = nextId + Len(seed)
            /\ Did(r, "insert_many")
       ELSE UNCHANGED <<blogpost, nextId, dbops>>
    /\ pc' = [pc EXCEPT ![r] = "list_blog_reread"]
    /\ UNCHANGED <<env, db, workers, user, contactmessage, kind, payload,
                   existing, posts, status, body, empty_at_call>>

\* main.py:81
list_blog_seed(r) ==
    /\ pc[r] = "list_blog_seed"
    /\ blogpost' = insert_many(blogpost, seed)
    /\ nextId' = nextId + Len(seed)
    /\ Did(r, "insert_many")
    /\ pc' = [pc EXCEPT ![r] = "list_blog_reread"]
    /\ UNCHANGED <<env, db, workers, user, contactmessage, kind, payload,
                   existing, posts, status, body, empty_at_call>>

\* main.py:82, 84-87
list_blog_reread(r) ==
    /\ pc[r] = "list_blog_reread"
    /\ posts' = [posts EXCEPT ![r] = get_documents(blogpost)]
    /\ Did(r, "find")
    /\ Respond(r, 200, Normalize(get_documents(blogpost)))
    /\ UNCHANGED <<env, db, workers, store, kind, payload, existing,
                   empty_at_call>>

\* POST /api/contact: the framework validates the body as a ContactPayload
\* before the handler runs.
contact_request(r) ==
    /\ Accept(r)
    /\ \E email \in EmailInputs :
         /\ kind' = [kind EXCEPT ![r] = "contact"]
         /\ payload' = [payload EXCEPT ![r] = ContactPayload(email)]
         /\ IF ContactPayloadValid(ContactPayload(email))
            THEN /\ pc' = [pc EXCEPT ![r] = "contact_create"]
                 /\ UNCHANGED <<status, body>>
            ELSE Respond(r, 422, [detail |-> "value is not a valid email address"])
    /\ UNCHANGED <<env, db, workers, store, existing, posts, dbops,
                   empty_at_call>>

\* main.py:101-105
contact_create(r) ==
    /\ pc[r] = "contact_create"
    /\ LET doc == ContactMessage(payload[r])
       IN  IF db
           THEN /\ contactmessage' = create_document(contactmessage, doc)
                /\ nextId' = nextId + 1
                /\ Did(r, "insert_one")
                /\ Respond(r, 200, [ok |-> TRUE, message_id |-> IdStr(nextId)])
           ELSE /\ Respond(r, 500, [detail |-> "Database not available"])
                /\ UNCHANGED <<contactmessage, nextId, dbops>>
    /\ UNCHANGED <<env, db, workers, user, blogpost, kind, payload, existing,
                   posts, empty_at_call>>

\* db.list_collection_names(): the program's collections that hold a
\* document, and n collections of other programs.
list_collection_names(n) ==
    (IF user # <<>> THEN <<"user">> ELSE <<>>)
    \o (IF blogpost # <<>> THEN <<"blogpost">> ELSE <<>>)
    \o (IF contactmessage # <<>> THEN <<"contactmessage">> ELSE <<>>)
    \o [i \in 1..n |-> "other" \o ToString(i)]

\* Variant: the list is not cut.
Take_All(s, k) == s

\* collections[:k]
Take(s, k) == SubSeq(s, 1, IF Len(s) < k THEN Len(s) ELSE k)

EnvStatus(name) == IF name \in env THEN "Set" ELSE "Not Set"

\* GET /test; raises: db.list_collection_names() raised
test_database(r) ==
    /\ Accept(r)
    /\ kind' = [kind EXCEPT ![r] = "test"]
    /\ \E n \in {0, MaxExtra}, raises \in BOOLEAN :
         LET response ==
                 [backend |-> "Running",
                  database |-> "Not Available",
                  database_url |-> "None",
                  database_name |-> "None",
                  connection_status |-> "Not Connected",
                  collections |-> <<>>]
             connected ==
                 [response EXCEPT !.database = "Available",
                                  !.database_url = "Configured",
                                  !.database_name = "name",
                                  !.connection_status = "Connected"]
             probed ==
                 IF db
                 THEN IF raises
                      THEN [connected EXCEPT !.database = "Connected but Error"]
                      ELSE [connected EXCEPT
                              !.collections =
                                  Take(list_collection_names(n), CollectionLimit),
                              !.database = "Connected & Working"]
                 ELSE [response EXCEPT !.database = "Available but not initialized"]
         IN  Respond(r, 200,
                     [probed EXCEPT
                        !.database_url = EnvStatus("DATABASE_URL"),
                        !.database_name = EnvStatus("DATABASE_NAME")])
    /\ IF db THEN Did(r, "list_collection_names") ELSE UNCHANGED dbops
    /\ UNCHANGED <<env, db, workers, store, payload, existing, posts,
                   empty_at_call>>

Next ==
    \E r \in Req :
        \/ read_root(r)
        \/ signup_request(r)
        \/ signup_find(r)
        \/ signup_create(r)
        \/ list_blog_read(r)
        \/ list_blog_seed(r)
        \/ list_blog_reread(r)
        \/ contact_request(r)
        \/ contact_create(r)
        \/ test_database(r)

Spec == Init /\ [][Next]_vars

\* ------------------------------------------------------------- properties

Done(r) == pc[r] = "done"

Signups == {r \in Req : kind[r] = "signup" /\ SignupPayloadValid(payload[r])}

Blogs == {r \in Req : kind[r] = "blog"}

SameEmail(r1, r2) == payload[r1].email = payload[r2].email

\* r is the first signup of the run with its email.
FirstWithEmail(r) ==
    \A q \in Signups : q < r => ~SameEmail(q, r)

IsPrefix(s, t) == Len(s) <= Len(t) /\ SubSeq(t, 1, Len(s)) = s

Writes(ops) == SelectSeq(ops, LAMBDA op : op \in {"insert_one", "insert_many"})

\* The response of a list-blog call that returns exactly the seed posts.
IsSeedResponse(b) ==
    /\ Len(b) = Len(seed)
    /\ \A i \in 1..Len(b) :
         /\ "_id" \notin DOMAIN b[i]
         /\ "id" \in DOMAIN b[i]
         /\ b[i].id # <<>>
         /\ Pop(b[i], "id") = seed[i]
    /\ b[1].title = "Launching our pastel fintech SaaS"
    /\ b[1].slug = "launching-pastel-fintech-saas"

SignupTwice(r1, r2) ==
    /\ r1 \in Signups /\ r2 \in Signups /\ r1 < r2
    /\ SameEmail(r1, r2) /\ FirstWithEmail(r1)
    /\ Done(r1) /\ Done(r2)

SignupTwiceOutcome(r1, r2) ==
    /\ status[r1] = 200 /\ body[r1].ok /\ "user_id" \in DOMAIN body[r1]
    /\ status[r2] = 409

\* C1 as stated: signups served one after the other, two of them with the
\* same email, the first of which is the first with that email: the first
\* returns ok with a user_id and the second returns 409.
C1_SignupTwiceAsStated ==
    workers = 1 =>
        \A r1, r2 \in Req : SignupTwice(r1, r2) => SignupTwiceOutcome(r1, r2)

\* C1 amended: with the database handle present and signups served one after
\* the other, of two signups with the same email, the first of which is the
\* first with that email, the first returns ok with a user_id and the second
\* returns 409 (not 500).
C1_SignupTwice ==
    (workers = 1 /\ db) =>
        \A r1, r2 \in Req : SignupTwice(r1, r2) => SignupTwiceOutcome(r1, r2)

C1_Witness ==
    /\ workers = 1 /\ db
    /\ \E r1, r2 \in Req :
         SignupTwice(r1, r2) /\ status[r1] = 200 /\ status[r2] = 409

\* The signup calls whose existence check found no user with the email.
Unseen == {r \in Signups : Done(r) /\ existing[r] = <<>>}

SignupCreated(r) ==
    /\ status[r] = 200
    /\ body[r].ok
    /\ body[r].user_id # <<>>
    /\ Cardinality({i \in 1..Len(user) :
           /\ IdStr(user[i]._id) = body[r].user_id
           /\ user[i].email = payload[r].email}) = 1
    /\ Len(user) = Cardinality({q \in Signups : Done(q) /\ status[q] = 200})

\* C2 as stated: a valid signup whose email the user collection does not
\* hold returns ok with a non-empty identifier, and the store gains exactly
\* one user document, which carries that email.
C2_SignupUnseenAsStated == \A r \in Unseen : SignupCreated(r)

\* C2 amended: with the database handle present, a valid signup whose
\* existence check finds no user with its email returns ok with a non-empty
\* identifier, and the store gains exactly one user document, which carries
\* that email.
C2_SignupUnseen == db => \A r \in Unseen : SignupCreated(r)

C2_Witness ==
    /\ db
    /\ \E r \in Unseen : status[r] = 200 /\ Len(user) = 1

\* C3 as stated: a list-blog call made when the blogpost collection is
\* empty returns exactly the two seed posts, each with its fields and a
\* non-empty id in place of _id.
C3_SeedOnEmptyAsStated ==
    \A r \in Blogs :
        (Done(r) /\ empty_at_call[r]) =>
            status[r] = 200 /\ IsSeedResponse(body[r])

\* C3 amended: with the database handle present and requests served one at a
\* time, a list-blog call made when the blogpost collection is empty returns
\* exactly the two seed posts, each with its fields and a non-empty id in
\* place of _id.
C3_SeedOnEmpty ==
    (db /\ workers = 1) =>
        \A r \in Blogs :
            (Done(r) /\ empty_at_call[r]) =>
                status[r] = 200 /\ IsSeedResponse(body[r])

C3_Witness ==
    /\ db /\ workers = 1
    /\ \E r \in Blogs :
         Done(r) /\ empty_at_call[r] /\ Len(body[r]) = 2 /\ Len(blogpost) = 2

\* C4: a list-blog call that found a document in the collection inserts
\* nothing; with requests served one at a time the collection never holds
\* more than the seed set and all list-blog calls return the same posts.
C4_SingleCallerIdempotent ==
    /\ \A r \in Blogs : Writes(dbops[r]) # <<>> => empty_at_call[r]
    /\ workers = 1 =>
         /\ Len(blogpost) <= Len(seed)
         /\ \A r1, r2 \in Blogs :
              (Done(r1) /\ Done(r2)) => body[r1] = body[r2]

C4_Witness ==
    /\ workers = 1 /\ db
    /\ \E r1, r2 \in Blogs :
         /\ r1 < r2 /\ Done(r1) /\ Done(r2)
         /\ ~empty_at_call[r2] /\ Writes(dbops[r2]) = <<>>
         /\ Len(body[r2]) = 2

InvalidContacts ==
    {r \in Req : kind[r] = "contact" /\ ~EmailStr(payload[r].email)}

\* C5: a contact submission with an invalid email gets the validation error
\* without entering the handler: it performs no database operation and no
\* contact message carries its email.
C5_InvalidContactRejected ==
    \A r \in InvalidContacts :
        /\ Done(r)
        /\ status[r] = 422
        /\ dbops[r] = <<>>
        /\ \A i \in 1..Len(contactmessage) :
             contactmessage[i].email # payload[r].email

C5_Witness ==
    /\ db
    /\ \E r \in InvalidContacts : Done(r) /\ status[r] = 422
    /\ \E r \in Req : kind[r] = "contact" /\ status[r] = 200

\* The list-blog calls that read an empty collection and are past their insert.
Seeders ==
    {r \in Blogs : db /\ empty_at_call[r]
                     /\ pc[r] \in {"list_blog_reread", "done"}}

\* C6: every list-blog call that read the collection as empty inserts its
\* own copy of the seed set, whatever the collection holds by then.
C6_DoubleSeed ==
    /\ Len(blogpost) = Len(seed) * Cardinality(Seeders)
    /\ \A i \in 1..Len(blogpost) :
         blogpost[i].slug = seed[((i - 1) % Len(seed)) + 1].slug

C6_Witness ==
    /\ Len(blogpost) = 4
    /\ blogpost[1].slug = blogpost[3].slug
    /\ blogpost[2].slug = blogpost[4].slug
    /\ \A r \in {1, 2} : r \in Blogs /\ Done(r) /\ empty_at_call[r]

\* C7: without a database handle list-blog answers 200 with an empty list
\* and performs no database operation.
C7_DegradedBlogEmpty ==
    ~db => \A r \in Blogs :
               Done(r) /\ status[r] = 200 /\ body[r] = <<>> /\ dbops[r] = <<>>

C7_Witness == ~db /\ \E r \in Blogs : Done(r) /\ status[r] = 200

\* C8: every step keeps every document of every collection as it was, and no
\* request performs more than one write operation.
C8_InsertOnly ==
    [][/\ IsPrefix(user, user')
       /\ IsPrefix(blogpost, blogpost')
       /\ IsPrefix(contactmessage, contactmessage')
       /\ \A r \in Req : Len(Writes(dbops'[r])) <= 1]_vars

C8_Witness ==
    /\ Len(blogpost) > Len(seed)
    /\ \E r \in Req : Writes(dbops[r]) = <<"insert_many">>

Tests == {r \in Req : kind[r] = "test"}

\* C9: the diagnostics endpoint always answers 200; without a database
\* handle it reports "not initialized", "Not Connected" and no collections;
\* with one it reports at most 10 collection names.
C9_Diagnostics ==
    \A r \in Tests :
        /\ Done(r) /\ status[r] = 200
        /\ ~db => /\ body[r].database = "Available but not initialized"
                  /\ body[r].connection_status = "Not Connected"
                  /\ body[r].collections = <<>>
        /\ db => Len(body[r].collections) <= CollectionLimit

C9_Witness ==
    /\ ~db
    /\ \E r \in Tests :
         /\ Done(r) /\ status[r] = 200
         /\ body[r].database = "Available but not initialized"

UserEmailsUnique ==
    \A i, j \in 1..Len(user) : user[i].email = user[j].email => i = j

\* C10: every signup that answered ok found no user with its email when it
\* checked, and with requests served one at a time no two user documents
\* share an email.
C10_BestEffortUnique ==
    /\ \A r \in Signups : (Done(r) /\ status[r] = 200) => existing[r] = <<>>
    /\ workers = 1 => UserEmailsUnique

C10_Witness ==
    /\ workers > 1
    /\ \E r1, r2 \in Signups :
         /\ r1 # r2 /\ SameEmail(r1, r2)
         /\ status[r1] = 200 /\ status[r2] = 200
    /\ Len(user) = 2 /\ user[1].email = user[2].email

====
